---- MODULE Spec2Model ----
(***************************************************************************)
(* A model of lib/tiledsurface.hpp: the TiledSurface class (atomic batches, *)
(* the tile-pointer cache, draw_dab, get_color) and the free function       *)
(* composite_tile_over_rgb8.                                                *)
(*                                                                          *)
(* Numbers.  The C++ floats are carried as exact fixed-point integers:      *)
(* positions and radii in twentieths of a pixel (so 0.05 and 0.1 are        *)
(* representable), colours, opacity, hardness and alpha_eraser in halves.   *)
(* The inputs the specifications draw are values for which the float        *)
(* arithmetic of the source is exact or is only compared/floored away from  *)
(* a boundary; the 15 bit fixed point pixel arithmetic is integer in the    *)
(* source and is reproduced as such, truncating division included.          *)
(*                                                                          *)
(* assert() is modelled as compiled in: a failed assertion aborts the       *)
(* process (aborted = TRUE) and nothing runs afterwards.                    *)
(***************************************************************************)
EXTENDS Integers, Sequences, FiniteSets, TLC

VARIABLES
    atomic,            \* int atomic
    dirty_bbox,        \* Rect dirty_bbox: [x, y, w, h]
    tileMemory,        \* TileMemory tileMemory[TILE_MEMORY_SIZE]: 0..7 -> [tx, ty, rgba_p]
    tileMemoryValid,   \* int tileMemoryValid
    tileMemoryWrite,   \* int tileMemoryWrite
    pixels,            \* the tile store's pixel memory: <<gx, gy>> -> <<r, g, b, a>>, absent = all zero
    aborted,           \* a failed assert (or a crash) ended the process
    call,              \* the last call made on the surface: [op, ...arguments]
    ret,               \* what the last call returned: <<>> (nothing) or <<value>>
    storeLog,          \* the tile store calls the last call made: sequence of [tx, ty, readonly, ok]
    notified,          \* the notify_observers calls the last call made: sequence of Rect
    changed,           \* history: pixels some draw_dab changed since the last flush
    dabRects,          \* history: the rectangles of the dabs since the last flush that ran to the end or changed a pixel
    ndabs,             \* history: number of non-degenerate draw_dab calls so far (bounded)
    fetched,           \* history: the tiles entered into the cache since the last flush, in order
    src_px, dst_px, dst0, nflat   \* composite_tile_over_rgb8: its two buffers, the destination before, calls made

vars == <<atomic, dirty_bbox, tileMemory, tileMemoryValid, tileMemoryWrite, pixels,
          aborted, call, ret, storeLog, notified, changed, dabRects, ndabs, fetched,
          src_px, dst_px, dst0, nflat>>

surfaceVars == <<atomic, dirty_bbox, tileMemory, tileMemoryValid, tileMemoryWrite, pixels,
                 aborted, call, ret, storeLog, notified, changed, dabRects, ndabs, fetched>>

flatVars == <<src_px, dst_px, dst0, nflat>>

----------------------------------------------------------------------------
(* Program constants *)

TILE_SIZE == 64

TILE_MEMORY_SIZE == 8

\* 1<<15, the fixed point 1.0
ONE15 == 32768

----------------------------------------------------------------------------
(* Bounds of the model *)

\* deepest nesting of begin_atomic the callers reach
MaxAtomic == 2

\* non-degenerate draw_dab calls in one run
MaxDabs == 2

\* the tile strip walked by the cache specification is 0..MaxTile
MaxTile == 8

\* tiles entered into the cache between two flushes in the cache specification
MaxFetch == 10

\* applications of composite_tile_over_rgb8 to one destination
MaxFlatten == 2

----------------------------------------------------------------------------
(* Fixed point helpers: v is in twentieths of a pixel *)

\* floor(v) and ceil(v) of <math.h>, as integers
Floor(v) == v \div 20

Ceil(v) == -((-v) \div 20)

\* an int converted to the fixed point scale
Fix(n) == 20 * n

\* (1<<15) * (p/q) truncated to an integer, for 0 <= p <= q, computed in two
\* steps so that no intermediate product leaves 32 bits
Scale15(p, q) ==
    LET a  == (256 * p) \div q
        r1 == (256 * p) % q
    IN 128 * a + (128 * r1) \div q

NULL == <<>>

\* the address of the tile store's buffer for tile (tx, ty); the store keeps it
\* stable, so the tile's coordinates stand for it
BufferOf(tx, ty) == <<tx, ty>>

----------------------------------------------------------------------------
(* The tile-pointer cache: a value [mem, valid, write] standing for           *)
(* tileMemory, tileMemoryValid and tileMemoryWrite                            *)

CacheOf(mem, valid, write) == [mem |-> mem, valid |-> valid, write |-> write]

MinOf(S) == CHOOSE m \in S : \A n \in S : m <= n

\* the linear scan at the head of get_tile_memory: the indices below
\* tileMemoryValid whose entry is for tile (tx, ty); the scan returns the first
CacheHits(c, tx, ty) ==
    {i \in 0..(c.valid - 1) : c.mem[i].tx = tx /\ c.mem[i].ty = ty}

\* CacheInsert with a fault seeded: the write index is clamped at the last slot, not wrapped
CacheInsertClamped(c, tx, ty, rgba_p) ==
    [mem   |-> [c.mem EXCEPT ![c.write] = [tx |-> tx, ty |-> ty, rgba_p |-> rgba_p]],
     valid |-> IF c.valid < TILE_MEMORY_SIZE THEN c.valid + 1 ELSE c.valid,
     write |-> IF c.write + 1 < TILE_MEMORY_SIZE THEN c.write + 1 ELSE c.write]

\* the if (!readonly) block: grow up to TILE_MEMORY_SIZE, overwrite the entry
\* at the write index, advance the write index cyclically
CacheInsert(c, tx, ty, rgba_p) ==
    [mem   |-> [c.mem EXCEPT ![c.write] = [tx |-> tx, ty |-> ty, rgba_p |-> rgba_p]],
     valid |-> IF c.valid < TILE_MEMORY_SIZE THEN c.valid + 1 ELSE c.valid,
     write |-> (c.write + 1) % TILE_MEMORY_SIZE]

\* CachesFetch with a fault seeded: read-only fetches are cached too
CachesFetchAlways(readonly) == TRUE

\* whether a fetched tile enters the cache
CachesFetch(readonly) == ~readonly

\* GetTileMemory with a fault seeded: the entry is written before the result is tested
GetTileMemoryCachesFailure(c, tx, ty, readonly, storeOk) ==
    LET hits == {i \in 0..(c.valid - 1) : c.mem[i].tx = tx /\ c.mem[i].ty = ty}
        p    == IF storeOk THEN <<tx, ty>> ELSE <<>>
        ins  == [mem   |-> [c.mem EXCEPT ![c.write] = [tx |-> tx, ty |-> ty, rgba_p |-> p]],
                 valid |-> IF c.valid < TILE_MEMORY_SIZE THEN c.valid + 1 ELSE c.valid,
                 write |-> (c.write + 1) % TILE_MEMORY_SIZE]
    IN IF hits # {}
       THEN [c |-> c, p |-> c.mem[MinOf(hits)].rgba_p, log |-> <<>>]
       ELSE [c |-> IF readonly THEN c ELSE ins, p |-> p,
             log |-> <<[tx |-> tx, ty |-> ty, readonly |-> readonly, ok |-> storeOk]>>]

\* get_tile_memory as a function of the cache and of the store's answer:
\* the cache afterwards, the pointer returned, the store calls made
GetTileMemory(c, tx, ty, readonly, storeOk) ==
    LET hits == CacheHits(c, tx, ty) IN
    IF hits # {}
    THEN [c |-> c, p |-> c.mem[MinOf(hits)].rgba_p, log |-> <<>>]
    ELSE IF ~storeOk
    THEN [c |-> c, p |-> NULL,
          log |-> <<[tx |-> tx, ty |-> ty, readonly |-> readonly, ok |-> FALSE]>>]
    ELSE [c |-> IF CachesFetch(readonly) THEN CacheInsert(c, tx, ty, BufferOf(tx, ty)) ELSE c,
          p |-> BufferOf(tx, ty),
          log |-> <<[tx |-> tx, ty |-> ty, readonly |-> readonly, ok |-> TRUE]>>]

\* the store fails on the tile named by fail (NoFail: on none) during one call
NoFail == <<>>

StoreOk(fail, tx, ty) == fail # <<tx, ty>>

----------------------------------------------------------------------------
(* Rect and ExpandRectToIncludePoint (helpers, not part of this file)         *)

ExpandRectToIncludePoint(r, x, y) ==
    IF r.w = 0
    THEN [x |-> x, y |-> y, w |-> 1, h |-> 1]
    ELSE LET rx == IF x < r.x THEN [x |-> x, w |-> r.w + (r.x - x)]
                   ELSE IF x >= r.x + r.w THEN [x |-> r.x, w |-> x - r.x + 1]
                   ELSE [x |-> r.x, w |-> r.w]
             ry == IF y < r.y THEN [y |-> y, h |-> r.h + (r.y - y)]
                   ELSE IF y >= r.y + r.h THEN [y |-> r.y, h |-> y - r.y + 1]
                   ELSE [y |-> r.y, h |-> r.h]
         IN [x |-> rx.x, y |-> ry.y, w |-> rx.w, h |-> ry.h]

----------------------------------------------------------------------------
(* draw_dab.  A dab is [x, y, radius, color_r, color_g, color_b, opaque,     *)
(* hardness, alpha_eraser]: x, y, radius in twentieths, the rest in halves.  *)

\* the three asserts on the colours
ColorsInRange(dab) ==
    /\ dab.color_r >= 0 /\ dab.color_r <= 2
    /\ dab.color_g >= 0 /\ dab.color_g <= 2
    /\ dab.color_b >= 0 /\ dab.color_b <= 2

\* DabIsNoop with a fault seeded: the hardness test is missing
DabIsNoopNoHardness(dab) == dab.opaque = 0 \/ dab.radius < 2

\* the three early returns: opaque == 0, radius < 0.1, hardness == 0
DabIsNoop(dab) ==
    \/ dab.opaque = 0
    \/ dab.radius < 2
    \/ dab.hardness = 0

\* uint32_t color_c_ = color_c * (1<<15)
Color15(c) == (c * ONE15) \div 2

\* r_fringe = radius + 1
Fringe(radius) == radius + Fix(1)

\* tx1, tx2 (ty1, ty2): floor(floor(x -+ r_fringe) / TILE_SIZE)
TileLo(x, radius) == Floor(x - Fringe(radius)) \div TILE_SIZE

TileHi(x, radius) == Floor(x + Fringe(radius)) \div TILE_SIZE

\* the tiles in the order the two nested loops visit them: ty outer, tx inner
TileOrder(x, y, radius) ==
    LET tx1 == TileLo(x, radius)
        tx2 == TileHi(x, radius)
        ty1 == TileLo(y, radius)
        ty2 == TileHi(y, radius)
        w   == tx2 - tx1 + 1
        n   == w * (ty2 - ty1 + 1)
    IN [k \in 1..n |-> <<tx1 + ((k - 1) % w), ty1 + ((k - 1) \div w)>>]

\* x0 and x1 (y0 and y1) of the clipped sub-rectangle of tile t
ClipLo(x, radius, t) ==
    LET v == Floor((x - Fix(t * TILE_SIZE)) - Fringe(radius)) IN IF v < 0 THEN 0 ELSE v

ClipHi(x, radius, t) ==
    LET v == Ceil((x - Fix(t * TILE_SIZE)) + Fringe(radius))
    IN IF v > TILE_SIZE - 1 THEN TILE_SIZE - 1 ELSE v

\* (yy + xx), the squared distance of the centre of pixel (xp, yp) of tile
\* (tx, ty) from the dab centre, in units of 1/400; rr is this over radius^2
Dist2(x, y, tx, ty, xp, yp) ==
    LET dx == (Fix(xp) + 10) - (x - Fix(tx * TILE_SIZE))
        dy == (Fix(yp) + 10) - (y - Fix(ty * TILE_SIZE))
    IN dy * dy + dx * dx

\* the pixels of tile (tx, ty) the inner loops write: rr <= 1.0
DabPixels(x, y, radius, tx, ty) ==
    {q \in (ClipLo(x, radius, tx)..ClipHi(x, radius, tx))
             \X (ClipLo(y, radius, ty)..ClipHi(y, radius, ty)) :
        Dist2(x, y, tx, ty, q[1], q[2]) <= radius * radius}

\* uint32_t opa_a = (1<<15)*opa, with opa the hardness falloff at rr = n/d
\* times opaque
OpaA(opaque, hardness, n, d) ==
    IF hardness >= 2
    THEN Scale15(opaque, 2)
    ELSE IF 2 * n < hardness * d
    THEN Scale15(opaque * (n * hardness + d * hardness - 2 * n), 2 * hardness * d)
    ELSE Scale15(opaque * hardness * (d - n), 2 * (2 - hardness) * d)

\* the four stores to rgba_p[idx+3], [idx+0], [idx+1], [idx+2]; old and the
\* result are <<r, g, b, a>>, each kept in a uint16_t
BlendPixel(old, dab, opa_a0) ==
    LET opa_b == ONE15 - opa_a0
        opa_a == (opa_a0 * dab.alpha_eraser) \div 2
    IN << ((opa_a * Color15(dab.color_r) + opa_b * old[1]) \div ONE15) % 65536,
          ((opa_a * Color15(dab.color_g) + opa_b * old[2]) \div ONE15) % 65536,
          ((opa_a * Color15(dab.color_b) + opa_b * old[3]) \div ONE15) % 65536,
          (opa_a + (opa_b * old[4]) \div ONE15) % 65536 >>

Transparent == <<0, 0, 0, 0>>

PixelAt(px, g) == IF g \in DOMAIN px THEN px[g] ELSE Transparent

\* pixel memory keeps only the pixels that are not all zero
Compact(px) == [g \in {h \in DOMAIN px : px[h] # Transparent} |-> px[g]]

\* pixel (xp, yp) of the buffer at rgba_p, as a pixel of the image
GlobalOf(rgba_p, q) == <<rgba_p[1] * TILE_SIZE + q[1], rgba_p[2] * TILE_SIZE + q[2]>>

\* the body of the tile loop after a successful fetch: every pixel of the
\* clipped sub-rectangle with rr <= 1 is blended in the buffer at rgba_p
WriteTile(px, dab, rgba_p, tx, ty) ==
    LET qs == DabPixels(dab.x, dab.y, dab.radius, tx, ty)
        gs == {GlobalOf(rgba_p, q) : q \in qs}
        new(g) == LET q == <<g[1] - rgba_p[1] * TILE_SIZE, g[2] - rgba_p[2] * TILE_SIZE>>
                  IN BlendPixel(PixelAt(px, g), dab,
                                OpaA(dab.opaque, dab.hardness,
                                     Dist2(dab.x, dab.y, tx, ty, q[1], q[2]),
                                     dab.radius * dab.radius))
    IN Compact([g \in (DOMAIN px) \cup gs |-> IF g \in gs THEN new(g) ELSE px[g]])

\* the pixels whose value differs between two pixel memories
Differ(px, py) == {g \in (DOMAIN px) \cup (DOMAIN py) : PixelAt(px, g) # PixelAt(py, g)}

\* the two tile loops from the k-th tile on; st = [c, px, log, failed]:
\* a failed fetch returns at once
RECURSIVE DrawTiles(_, _, _, _, _)
DrawTiles(dab, order, k, fail, st) ==
    IF k > Len(order)
    THEN st
    ELSE LET t == order[k]
             g == GetTileMemory(st.c, t[1], t[2], FALSE, StoreOk(fail, t[1], t[2]))
         IN IF g.p = NULL
            THEN [c |-> g.c, px |-> st.px, log |-> st.log \o g.log, failed |-> TRUE]
            ELSE DrawTiles(dab, order, k + 1, fail,
                           [c      |-> g.c,
                            px     |-> WriteTile(st.px, dab, g.p, t[1], t[2]),
                            log    |-> st.log \o g.log,
                            failed |-> FALSE])

\* the block that expands the bounding box after the loops
ExpandDirty(bbox, dab) ==
    LET bb_x == Floor(dab.x - (dab.radius + Fix(1)))
        bb_y == Floor(dab.y - (dab.radius + Fix(1)))
        bb_w == Ceil(2 * (dab.radius + Fix(1)))
        bb_h == Ceil(2 * (dab.radius + Fix(1)))
    IN ExpandRectToIncludePoint(ExpandRectToIncludePoint(bbox, bb_x, bb_y),
                                bb_x + bb_w - 1, bb_y + bb_h - 1)

\* the dirty box when draw_dab returns: a return from inside the tile loops
\* skips the expansion
DirtyAfterDab(bbox, dab, failed) == IF failed THEN bbox ELSE ExpandDirty(bbox, dab)

----------------------------------------------------------------------------
(* begin_atomic and end_atomic *)

\* BeginAtomicAsserts with a fault seeded: the asserts are made at every depth
BeginAtomicAssertsAlways(at, bbox, valid) == bbox.w = 0 /\ valid = 0

\* the two asserts of begin_atomic, made only when atomic == 0
BeginAtomicAsserts(at, bbox, valid) == (at = 0) => (bbox.w = 0 /\ valid = 0)

\* EndAtomicFlushes with a fault seeded: every end_atomic flushes
EndAtomicFlushesAlways(at) == TRUE

\* end_atomic flushes when the decremented counter is 0
EndAtomicFlushes(at) == at = 0

\* the report is made only for a non-empty box
ReportsDirty(bbox) == bbox.w > 0

\* the entries the last call added to the cache, read off the store calls it made
Inserted(log) ==
    LET idx == {i \in 1..Len(log) : log[i].ok /\ ~log[i].readonly}
        RECURSIVE seqOf(_)
        seqOf(S) == IF S = {} THEN <<>>
                    ELSE LET m == MinOf(S) IN <<(<<log[m].tx, log[m].ty>>)>> \o seqOf(S \ {m})
    IN seqOf(idx)

Calls(op, args) == [op |-> op, args |-> args]

begin_atomic ==
    /\ ~aborted
    /\ atomic < MaxAtomic
    /\ call' = Calls("begin_atomic", <<>>)
    /\ ret' = <<>> /\ storeLog' = <<>> /\ notified' = <<>>
    /\ IF ~BeginAtomicAsserts(atomic, dirty_bbox, tileMemoryValid)
       THEN aborted' = TRUE /\ UNCHANGED atomic
       ELSE aborted' = FALSE /\ atomic' = atomic + 1
    /\ UNCHANGED <<dirty_bbox, tileMemory, tileMemoryValid, tileMemoryWrite, pixels,
                   changed, dabRects, ndabs, fetched>>

\* notifyOk: notify_observers returned a result; when it raised, res is NULL
\* and Py_DECREF(res) dereferences it: the process crashes or carries on
end_atomic(notifyOk, crash) ==
    /\ ~aborted
    /\ call' = Calls("end_atomic", <<>>)
    /\ ret' = <<>> /\ storeLog' = <<>>
    /\ UNCHANGED <<tileMemory, pixels, ndabs>>
    /\ IF ~(atomic > 0)
       THEN /\ aborted' = TRUE
            /\ notified' = <<>>
            /\ UNCHANGED <<atomic, dirty_bbox, tileMemoryValid, tileMemoryWrite,
                           changed, dabRects, fetched>>
       ELSE /\ atomic' = atomic - 1
            /\ IF EndAtomicFlushes(atomic - 1)
               THEN /\ tileMemoryValid' = 0
                    /\ tileMemoryWrite' = 0
                    /\ dirty_bbox' = [dirty_bbox EXCEPT !.w = 0]
                    /\ changed' = {} /\ dabRects' = {} /\ fetched' = <<>>
                    /\ IF ReportsDirty(dirty_bbox)
                       THEN /\ notified' = <<dirty_bbox>>
                            /\ aborted' = (~notifyOk /\ crash)
                       ELSE /\ notified' = <<>>
                            /\ aborted' = FALSE
               ELSE /\ notified' = <<>>
                    /\ aborted' = FALSE
                    /\ UNCHANGED <<dirty_bbox, tileMemoryValid, tileMemoryWrite,
                                   changed, dabRects, fetched>>

----------------------------------------------------------------------------
(* get_tile_memory, called directly (it is a public member) *)

get_tile_memory(tx, ty, readonly, fail) ==
    \E g \in {GetTileMemory(CacheOf(tileMemory, tileMemoryValid, tileMemoryWrite),
                             tx, ty, readonly, StoreOk(fail, tx, ty))} :
       /\ ~aborted
       /\ call' = Calls("get_tile_memory", <<tx, ty, readonly>>)
       /\ ret' = <<g.p>>
       /\ storeLog' = g.log
       /\ notified' = <<>>
       /\ tileMemory' = g.c.mem
       /\ tileMemoryValid' = g.c.valid
       /\ tileMemoryWrite' = g.c.write
       /\ fetched' = fetched \o Inserted(g.log)
       /\ UNCHANGED <<atomic, dirty_bbox, pixels, aborted, changed, dabRects, ndabs>>

----------------------------------------------------------------------------
(* draw_dab *)

\* the rectangle (x-(r+1), y-(r+1)) to (x+(r+1), y+(r+1)) of a dab, in twentieths
DabRect(dab) ==
    [x1 |-> dab.x - (dab.radius + Fix(1)), y1 |-> dab.y - (dab.radius + Fix(1)),
     x2 |-> dab.x + (dab.radius + Fix(1)), y2 |-> dab.y + (dab.radius + Fix(1))]

draw_dab(dab, fail) ==
    /\ ~aborted
    /\ call' = Calls("draw_dab", <<dab, fail>>)
    /\ notified' = <<>>
    /\ IF ~ColorsInRange(dab)
       THEN /\ aborted' = TRUE
            /\ ret' = <<>> /\ storeLog' = <<>>
            /\ UNCHANGED <<atomic, dirty_bbox, tileMemory, tileMemoryValid, tileMemoryWrite,
                           pixels, changed, dabRects, ndabs, fetched>>
       ELSE IF DabIsNoop(dab)
       THEN /\ ret' = <<FALSE>> /\ storeLog' = <<>>
            /\ UNCHANGED <<atomic, dirty_bbox, tileMemory, tileMemoryValid, tileMemoryWrite,
                           pixels, aborted, changed, dabRects, ndabs, fetched>>
       ELSE IF ~(atomic > 0)
       THEN /\ aborted' = TRUE
            /\ ret' = <<>> /\ storeLog' = <<>>
            /\ UNCHANGED <<atomic, dirty_bbox, tileMemory, tileMemoryValid, tileMemoryWrite,
                           pixels, changed, dabRects, ndabs, fetched>>
       ELSE /\ ndabs < MaxDabs
            /\ \E st \in {DrawTiles(dab, TileOrder(dab.x, dab.y, dab.radius), 1, fail,
                                    [c      |-> CacheOf(tileMemory, tileMemoryValid, tileMemoryWrite),
                                     px     |-> pixels,
                                     log    |-> <<>>,
                                     failed |-> FALSE])} :
               /\ ndabs' = ndabs + 1
               /\ ret' = <<TRUE>>
               /\ storeLog' = st.log
               /\ tileMemory' = st.c.mem
               /\ tileMemoryValid' = st.c.valid
               /\ tileMemoryWrite' = st.c.write
               /\ pixels' = st.px
               /\ dirty_bbox' = DirtyAfterDab(dirty_bbox, dab, st.failed)
               /\ changed' = changed \cup Differ(pixels, st.px)
               /\ dabRects' = IF st.failed /\ Differ(pixels, st.px) = {}
                              THEN dabRects ELSE dabRects \cup {DabRect(dab)}
               /\ fetched' = fetched \o Inserted(st.log)
               /\ UNCHANGED <<atomic, aborted>>

----------------------------------------------------------------------------
(* get_color *)

\* const float hardness = 0.5 and const float opaque = 1.0, in halves
GetColorHardness == 1

GetColorOpaque == 2

\* the weight opa of a pixel at rr = n/d as a numerator over the common
\* denominator 2 * hardness * (2 - hardness) * d (hardness < 1.0 here)
OpaNum(opaque, hardness, n, d) ==
    IF 2 * n < hardness * d
    THEN opaque * (n * hardness + d * hardness - 2 * n) * (2 - hardness)
    ELSE opaque * hardness * (d - n) * hardness

\* the sums one tile adds: [w, c] with c = <<r, g, b, a>>, read through rgba_p
SumTile(px, x, y, radius, rgba_p, tx, ty, acc) ==
    LET qs == DabPixels(x, y, radius, tx, ty)
        wt(q) == OpaNum(GetColorOpaque, GetColorHardness,
                        Dist2(x, y, tx, ty, q[1], q[2]), radius * radius)
        RECURSIVE add(_, _)
        add(S, a) ==
            IF S = {} THEN a
            ELSE LET q == CHOOSE e \in S : TRUE
                     v == PixelAt(px, GlobalOf(rgba_p, q))
                 IN add(S \ {q},
                        [w |-> a.w + wt(q),
                         c |-> <<a.c[1] + wt(q) * v[1], a.c[2] + wt(q) * v[2],
                                 a.c[3] + wt(q) * v[3], a.c[4] + wt(q) * v[4]>>])
    IN add(qs, acc)

\* the two tile loops of get_color from the k-th tile on; st = [c, sum, log, failed]
RECURSIVE SampleTiles(_, _, _, _, _, _, _, _)
SampleTiles(px, x, y, radius, order, k, fail, st) ==
    IF k > Len(order)
    THEN st
    ELSE LET t == order[k]
             g == GetTileMemory(st.c, t[1], t[2], TRUE, StoreOk(fail, t[1], t[2]))
         IN IF g.p = NULL
            THEN [c |-> g.c, sum |-> st.sum, log |-> st.log \o g.log, failed |-> TRUE]
            ELSE SampleTiles(px, x, y, radius, order, k + 1, fail,
                             [c      |-> g.c,
                              sum    |-> SumTile(px, x, y, radius, g.p, t[1], t[2], st.sum),
                              log    |-> st.log \o g.log,
                              failed |-> FALSE])

\* the colour written through the four pointers, each a fraction <<num, den>>:
\* alpha = sum_a / sum_weight, colours un-premultiplied or the sentinel (0, 1, 0)
ColorOf(sum) ==
    IF sum.c[4] > 0
    THEN [color_r |-> <<sum.c[1], sum.c[4]>>, color_g |-> <<sum.c[2], sum.c[4]>>,
          color_b |-> <<sum.c[3], sum.c[4]>>, color_a |-> <<sum.c[4], ONE15 * sum.w>>]
    ELSE [color_r |-> <<0, 1>>, color_g |-> <<1, 1>>, color_b |-> <<0, 1>>,
          color_a |-> <<0, ONE15 * sum.w>>]

\* the closing asserts: every component >= 0 and every colour <= 1.001
ColorAsserts(sum) ==
    \A i \in 1..4 : sum.c[i] >= 0 /\ (i < 4 => sum.c[i] <= sum.c[4] + sum.c[4] \div 1000)

get_color(x, y, radius, fail) ==
    /\ ~aborted
    /\ call' = Calls("get_color", <<x, y, radius, fail>>)
    /\ notified' = <<>>
    /\ UNCHANGED <<atomic, dirty_bbox, pixels, changed, dabRects, ndabs>>
    /\ IF ~(radius >= 2)
       THEN /\ aborted' = TRUE
            /\ ret' = <<>> /\ storeLog' = <<>>
            /\ UNCHANGED <<tileMemory, tileMemoryValid, tileMemoryWrite, fetched>>
       ELSE \E st \in {SampleTiles(pixels, x, y, radius, TileOrder(x, y, radius), 1, fail,
                                    [c      |-> CacheOf(tileMemory, tileMemoryValid, tileMemoryWrite),
                                     sum    |-> [w |-> 0, c |-> <<0, 0, 0, 0>>],
                                     log    |-> <<>>,
                                     failed |-> FALSE])} :
               /\ storeLog' = st.log
               /\ tileMemory' = st.c.mem
               /\ tileMemoryValid' = st.c.valid
               /\ tileMemoryWrite' = st.c.write
               /\ fetched' = fetched \o Inserted(st.log)
               /\ IF st.failed
                  THEN ret' = <<>> /\ aborted' = FALSE
                  ELSE IF ~(st.sum.w > 0) \/ ~ColorAsserts(st.sum)
                  THEN ret' = <<>> /\ aborted' = TRUE
                  ELSE ret' = <<ColorOf(st.sum)>> /\ aborted' = FALSE

----------------------------------------------------------------------------
(* composite_tile_over_rgb8: src is a tile of <<r, g, b, a>> uint16_t, dst a  *)
(* buffer of <<r, g, b>> uint8_t, both indexed by y * TILE_SIZE + x           *)

\* FlattenChannel with a fault seeded: 1.0 taken as 0x7fff
FlattenChannelShort(src_c, src_a, dst_c) ==
    ((src_c * 255 + ((ONE15 - 1) - src_a) * dst_c) \div ONE15) % 256

\* dst_p[c] = ((uint32_t)src_p[c]*255 + one_minus_topAlpha*dst_p[c]) / (1<<15)
FlattenChannel(src_c, src_a, dst_c) ==
    LET one_minus_topAlpha == ONE15 - src_a
    IN ((src_c * 255 + one_minus_topAlpha * dst_c) \div ONE15) % 256

FlattenPixel(s, d) ==
    <<FlattenChannel(s[1], s[4], d[1]), FlattenChannel(s[2], s[4], d[2]),
      FlattenChannel(s[3], s[4], d[3])>>

composite_tile_over_rgb8 ==
    /\ nflat < MaxFlatten
    /\ nflat' = nflat + 1
    /\ dst_px' = [i \in DOMAIN dst_px |-> FlattenPixel(src_px[i], dst_px[i])]
    /\ UNCHANGED <<src_px, dst0>>

----------------------------------------------------------------------------
(* The calls the specifications make *)

MkDab(x, y, radius, cr, cg, cb, opaque, hardness, eraser) ==
    [x |-> x, y |-> y, radius |-> radius, color_r |-> cr, color_g |-> cg, color_b |-> cb,
     opaque |-> opaque, hardness |-> hardness, alpha_eraser |-> eraser]

\* (63.5, 32.5), radius 0.1: its fringe reaches tiles (0,0) and (1,0), it
\* writes pixel (63, 32) of tile (0,0), the first tile fetched
DabPoint == MkDab(1270, 650, 2, 2, 0, 0, 2, 1, 2)

\* (64, 32), radius 1: two pixels in tile (0,0) and two in tile (1,0)
DabCross == MkDab(1280, 640, 20, 2, 1, 0, 2, 1, 2)

\* an eraser at (63.5, 32.5): hardness 1, alpha_eraser 0
DabErase == MkDab(1270, 650, 2, 0, 0, 0, 2, 2, 0)

PaintDabs == {DabPoint, DabCross, DabErase}

\* opacity 0, radius 0.05, hardness 0
NoopDabs ==
    {[DabPoint EXCEPT !.opaque = 0], [DabCross EXCEPT !.radius = 1],
     [DabErase EXCEPT !.hardness = 0]}

\* a colour component of 1.5
BadDabs == {[DabPoint EXCEPT !.color_g = 3], [DabPoint EXCEPT !.opaque = 0, !.color_b = 3]}

Dabs == PaintDabs \cup NoopDabs \cup BadDabs

Range(f) == {f[i] : i \in DOMAIN f}

\* the store fails on no tile, or on one of the tiles the call can ask for
FailChoices(x, y, radius) == {NoFail} \cup Range(TileOrder(x, y, radius))

Tiles == (0..1) \X {0}

\* get_color at (64, 32) r 1, at (64, 32) r 0.1 (no pixel centre inside) and
\* at (64, 32) r 0.05
Samples == {<<1280, 640, 20>>, <<1280, 640, 2>>, <<1280, 640, 1>>}

----------------------------------------------------------------------------
(* The surface after construction.  The constructor sets atomic,            *)
(* dirty_bbox.w and the two cache counters; the other fields of dirty_bbox  *)
(* and the cache entries are left as they are and are not read before they  *)
(* are set.                                                                 *)

Unset == {0}

InitSurface ==
    /\ atomic = 0
    /\ \E u \in Unset :
          /\ dirty_bbox = [x |-> u, y |-> u, w |-> 0, h |-> u]
          /\ tileMemory = [i \in 0..(TILE_MEMORY_SIZE - 1) |-> [tx |-> u, ty |-> u, rgba_p |-> NULL]]
    /\ tileMemoryValid = 0
    /\ tileMemoryWrite = 0
    /\ pixels = <<>>
    /\ aborted = FALSE
    /\ call = Calls("TiledSurface", <<>>)
    /\ ret = <<>>
    /\ storeLog = <<>>
    /\ notified = <<>>
    /\ changed = {}
    /\ dabRects = {}
    /\ ndabs = 0
    /\ fetched = <<>>

NoBuffers ==
    /\ src_px = <<>>
    /\ dst_px = <<>>
    /\ dst0 = <<>>
    /\ nflat = 0

Init == InitSurface /\ NoBuffers

Next ==
    \/ begin_atomic /\ UNCHANGED flatVars
    \/ \E notifyOk \in BOOLEAN, crash \in BOOLEAN :
          end_atomic(notifyOk, crash) /\ UNCHANGED flatVars
    \/ \E t \in Tiles, readonly \in BOOLEAN :
          \E fail \in {NoFail, t} :
             get_tile_memory(t[1], t[2], readonly, fail) /\ UNCHANGED flatVars
    \/ \E dab \in Dabs :
          \E fail \in FailChoices(dab.x, dab.y, dab.radius) :
             draw_dab(dab, fail) /\ UNCHANGED flatVars
    \/ \E s \in Samples :
          \E fail \in FailChoices(s[1], s[2], s[3]) :
             get_color(s[1], s[2], s[3], fail) /\ UNCHANGED flatVars

Spec == Init /\ [][Next]_vars

----------------------------------------------------------------------------
(* The cache specification: batches and direct get_tile_memory calls along  *)
(* the strip of tiles (0,0) .. (MaxTile,0).  The caller reaches a new tile  *)
(* only after the ones before it, and may come back to any tile reached.    *)

StripReach == Cardinality(Range(fetched))

NextCache ==
    \/ begin_atomic /\ UNCHANGED flatVars
    \/ end_atomic(TRUE, FALSE) /\ UNCHANGED flatVars
    \/ \E tx \in 0..MaxTile, readonly \in BOOLEAN :
          \E fail \in {NoFail, <<tx, 0>>} :
             /\ tx <= StripReach
             /\ Len(fetched) < MaxFetch
             /\ get_tile_memory(tx, 0, readonly, fail)
             /\ UNCHANGED flatVars

SpecCache == Init /\ [][NextCache]_vars

----------------------------------------------------------------------------
(* The flatten specification: composite_tile_over_rgb8 applied to a source  *)
(* tile of premultiplied pixels (colour <= alpha <= 1<<15, as draw_dab      *)
(* leaves them) and a destination in which every 8 bit value meets every    *)
(* source pixel.                                                            *)

SrcPalette ==
    << <<0, 0, 0, 0>>, <<32768, 0, 0, 32768>>, <<16384, 8192, 0, 16384>>,
       <<100, 50, 0, 200>>, <<0, 0, 0, 32768>>, <<128, 127, 1, 129>> >>

PixelIndex == 0..(TILE_SIZE * TILE_SIZE - 1)

\* source tile k: uniform runs of 256 pixels, the palette shifted by k
SrcTile(k) == [i \in PixelIndex |-> SrcPalette[(((i \div 256) + k) % Len(SrcPalette)) + 1]]

\* destination j: each channel runs through 0..255 within every run
DstTile(j) == [i \in PixelIndex |-> <<(i + j) % 256, (3 * i + 5 * j) % 256, (255 - i + 7 * j) % 256>>]

InitFlatten ==
    /\ InitSurface
    /\ nflat = 0
    /\ \E k \in 0..5, j \in 0..5 :
          /\ src_px = SrcTile(k)
          /\ dst_px = DstTile(j)
          /\ dst0 = DstTile(j)

NextFlatten == composite_tile_over_rgb8 /\ UNCHANGED surfaceVars

SpecFlatten == InitFlatten /\ [][NextFlatten]_vars

----------------------------------------------------------------------------
(* Vocabulary of the properties *)

cacheVars == <<tileMemory, tileMemoryValid, tileMemoryWrite>>

\* the tiles of the valid cache entries
CachedTiles == {<<tileMemory[i].tx, tileMemory[i].ty>> : i \in 0..(tileMemoryValid - 1)}

\* pixel g lies inside rectangle r
InRect(r, g) == r.x <= g[1] /\ g[1] < r.x + r.w /\ r.y <= g[2] /\ g[2] < r.y + r.h

TileOf(g) == <<g[1] \div TILE_SIZE, g[2] \div TILE_SIZE>>

Last(q) == q[Len(q)]

\* the last call was a draw_dab whose last store call failed
DabFailed(c, log) == c.op = "draw_dab" /\ log # <<>> /\ ~Last(log).ok

\* a dab the three early returns are for, read off the arguments
NoopArgs(dab) == dab.opaque = 0 \/ dab.radius < 2 \/ dab.hardness = 0

InUnit(c) == 0 <= c /\ c <= 2

\* no tile occurs twice in q
Distinct(q) == Cardinality(Range(q)) = Len(q)

\* box b lies inside box a (an empty b lies inside every box)
Covers(a, b) ==
    b.w = 0 \/ ( /\ a.w > 0
                 /\ a.x <= b.x /\ b.x + b.w <= a.x + a.w
                 /\ a.y <= b.y /\ b.y + b.h <= a.y + a.h )

\* the smallest box of whole pixels around a non-empty set of dab rectangles
HullOf(rects) ==
    LET x1 == MinOf({Floor(r.x1) : r \in rects})
        y1 == MinOf({Floor(r.y1) : r \in rects})
        x2 == -MinOf({-Ceil(r.x2) : r \in rects})
        y2 == -MinOf({-Ceil(r.y2) : r \in rects})
    IN [x |-> x1, y |-> y1, w |-> x2 - x1, h |-> y2 - y1]

\* the tiles draw_dab visits before tile t
TilesBefore(dab, t) ==
    LET order == TileOrder(dab.x, dab.y, dab.radius)
    IN {order[i] : i \in {j \in DOMAIN order : \A k \in 1..j : order[k] # t}}

----------------------------------------------------------------------------
(* C1: an end_atomic call that leaves the depth above 0 changes neither the  *)
(* cache nor the dirty box and notifies nobody; the end_atomic call that     *)
(* takes the depth from 1 to 0 empties the cache and the dirty box and makes *)
(* at most one notify_observers call, with the accumulated box, and makes it *)
(* exactly when that box is non-empty (w > 0).                               *)
C1_FlushOnlyAtOutermostClose ==
    [][ (call'.op = "end_atomic" /\ ~aborted /\ atomic > 0) =>
          IF atomic = 1
          THEN /\ atomic' = 0
               /\ tileMemoryValid' = 0 /\ tileMemoryWrite' = 0
               /\ dirty_bbox'.w = 0
               /\ Len(notified') <= 1
               /\ (Len(notified') = 1) <=> (dirty_bbox.w > 0)
               /\ notified' # <<>> => notified'[1] = dirty_bbox
          ELSE /\ atomic' = atomic - 1
               /\ UNCHANGED <<cacheVars, dirty_bbox>>
               /\ notified' = <<>> ]_vars

\* an outermost close that reported a box, in a run that also nested batches
C1_Witness ==
    /\ call.op = "end_atomic" /\ atomic = 0 /\ ~aborted
    /\ Len(notified) = 1 /\ notified[1].w > 0
    /\ ndabs = MaxDabs

----------------------------------------------------------------------------
(* C3: whenever no batch is open (depth 0) the cache is empty (valid count   *)
(* 0, write index 0) and the dirty box is empty (w = 0), so the assertions   *)
(* of begin_atomic never fail.                                               *)
C3_NothingCachedOutsideBatch ==
    /\ atomic = 0 => (tileMemoryValid = 0 /\ tileMemoryWrite = 0 /\ dirty_bbox.w = 0)
    /\ call.op = "begin_atomic" => ~aborted

----------------------------------------------------------------------------
(* C4, as claimed: a begin_atomic made while a batch is already open finds   *)
(* the cache and the dirty box empty.                                        *)
C4_NestedBeginFindsEmpty ==
    (call.op = "begin_atomic" /\ ~aborted /\ atomic >= 2) =>
        (tileMemoryValid = 0 /\ dirty_bbox.w = 0)

(* C4, amended: begin_atomic checks the cache and the dirty box only when no *)
(* batch is open: a call that opens the first batch found both empty, and a  *)
(* begin_atomic that fails its assertion was made at depth 0 with one of     *)
(* them non-empty; a nested begin_atomic checks nothing.                     *)
C4_FirstBeginFindsEmpty ==
    /\ (call.op = "begin_atomic" /\ ~aborted /\ atomic = 1) =>
           (tileMemoryValid = 0 /\ dirty_bbox.w = 0)
    /\ (call.op = "begin_atomic" /\ aborted) =>
           (atomic = 0 /\ (tileMemoryValid # 0 \/ dirty_bbox.w # 0))

\* a nested begin_atomic that went through with entries cached and a dirty box
C4_Witness ==
    /\ call.op = "begin_atomic" /\ ~aborted /\ atomic = 2
    /\ tileMemoryValid > 0 /\ dirty_bbox.w > 0

----------------------------------------------------------------------------
(* C5: a draw_dab call with opaque = 0, radius < 0.1 or hardness = 0 and     *)
(* colours in [0,1] returns false, makes no tile store call and leaves the   *)
(* pixels, the dirty box, the cache and the batch depth as they were, in     *)
(* every state, batch open or not.                                           *)
C5_NoopDabChangesNothing ==
    [][ ( /\ call'.op = "draw_dab" /\ ~aborted
          /\ NoopArgs(call'.args[1])
          /\ InUnit(call'.args[1].color_r) /\ InUnit(call'.args[1].color_g)
          /\ InUnit(call'.args[1].color_b) ) =>
          /\ ret' = <<FALSE>>
          /\ storeLog' = <<>>
          /\ ~aborted'
          /\ UNCHANGED <<pixels, dirty_bbox, cacheVars, atomic>> ]_vars

\* a no-op dab drawn with no batch open, on a surface that was painted before
C5_Witness ==
    /\ call.op = "draw_dab" /\ NoopArgs(call.args[1]) /\ ret = <<FALSE>>
    /\ atomic = 0 /\ DOMAIN pixels # {}

----------------------------------------------------------------------------
(* C6: within a batch the dirty box never shrinks from one draw_dab to the   *)
(* next, and after any sequence of non-degenerate dabs it equals the         *)
(* bounding union of the dabs' rectangles (x-(r+1), y-(r+1)) to              *)
(* (x+(r+1), y+(r+1)), taken to whole pixels.                                *)
C6_DirtyBoxIsUnionOfDabs ==
    /\ [][ (call'.op = "draw_dab" /\ ~aborted /\ ~aborted') => Covers(dirty_bbox', dirty_bbox) ]_vars
    /\ [](dabRects # {} => (dirty_bbox.w > 0 /\ dirty_bbox = HullOf(dabRects)))

----------------------------------------------------------------------------
(* C7: get_tile_memory with readonly = true leaves the cache entries, the    *)
(* valid count and the write index as they were, on a hit and on a miss;     *)
(* get_color fetches only read-only and leaves the cache, the dirty box, the *)
(* batch depth and every pixel as they were, batch open or not.              *)
C7_ReadOnlyFetchLeavesCache ==
    [][ /\ (call'.op = "get_tile_memory" /\ ~aborted /\ call'.args[3]) => UNCHANGED cacheVars
        /\ (call'.op = "get_color" /\ ~aborted) =>
              /\ UNCHANGED <<cacheVars, dirty_bbox, atomic, pixels>>
              /\ \A i \in 1..Len(storeLog') : storeLog'[i].readonly ]_vars

\* a get_color inside a batch that hit one cached tile and fetched another
C7_Witness ==
    /\ call.op = "get_color" /\ ~aborted /\ ret # <<>>
    /\ atomic > 0 /\ tileMemoryValid = 1 /\ Len(storeLog) = 1

----------------------------------------------------------------------------
----------------------------------------------------------------------------
(* C10: every pixel a draw_dab changed during a batch lies inside the        *)
(* rectangle reported by notify_observers at the outermost end_atomic, and a *)
(* report is made whenever a pixel changed.                                  *)
C10_ChangedPixelsAreReported ==
    [][ (call'.op = "end_atomic" /\ ~aborted /\ atomic = 1 /\ changed # {}) =>
          /\ Len(notified') = 1
          /\ \A g \in changed : InRect(notified'[1], g) ]_vars

----------------------------------------------------------------------------
(* C2: the cache never holds more than 8 valid entries and evicts in FIFO    *)
(* cyclic order: the valid entries are the last 8 tiles entered since the    *)
(* last flush, each in the slot of its turn; after 9 distinct tiles were     *)
(* entered the first of them is the one overwritten and the other 8 are      *)
(* still cached; a get_tile_memory for a tile that is not cached (the        *)
(* evicted first tile among them) calls the tile store, one for a cached     *)
(* tile returns the cached pointer without a store call.                     *)
C2_CacheIsFifoOfEight ==
    /\ [] /\ tileMemoryValid <= 8
          /\ tileMemoryValid = (IF Len(fetched) < 8 THEN Len(fetched) ELSE 8)
          /\ tileMemoryWrite = Len(fetched) % 8
          /\ \A j \in 1..Len(fetched) :
                j > Len(fetched) - 8 =>
                   tileMemory[(j - 1) % 8] =
                      [tx |-> fetched[j][1], ty |-> fetched[j][2], rgba_p |-> fetched[j]]
          /\ (atomic > 0 /\ Len(fetched) = 9 /\ Distinct(fetched)) =>
                /\ fetched[1] \notin CachedTiles
                /\ \A j \in 2..9 : fetched[j] \in CachedTiles
    /\ [][ (call'.op = "get_tile_memory" /\ ~aborted) =>
             LET t == <<call'.args[1], call'.args[2]>>
             IN IF t \in CachedTiles
                THEN storeLog' = <<>> /\ ret' = <<t>>
                ELSE Len(storeLog') = 1 /\ storeLog'[1].tx = t[1] /\ storeLog'[1].ty = t[2] ]_vars

\* inside one batch, nine distinct tiles were entered and the first of them
\* was then asked for again and fetched from the store again
C2_Witness ==
    /\ atomic > 0 /\ ~aborted
    /\ Len(fetched) = 10 /\ Distinct(SubSeq(fetched, 1, 9)) /\ fetched[10] = fetched[1]
    /\ call.op = "get_tile_memory" /\ Len(storeLog) = 1 /\ storeLog[1].ok
    /\ tileMemoryValid = 8

----------------------------------------------------------------------------
====
